---- MODULE Spec2Model ----
(***************************************************************************)
(* Electric Circuit Simulator (src/main.py): the four boolean flags, the   *)
(* score, the click dispatch of handle_mouse_click, reset_game, the main   *)
(* loop, and the hit test point_on_segment with the binary64 arithmetic    *)
(* Python performs on its float operands.                                  *)
(***************************************************************************)
EXTENDS Integers, Sequences, FiniteSets, TLC

(***************************************************************************)
(* Natural numbers as little-endian sequences of limbs in base 2^LimbBits  *)
(* (index 1 is the least significant limb, no zero limb at the top).  They *)
(* carry the significands of Python floats, which do not fit TLC's 32-bit  *)
(* integers.                                                               *)
(***************************************************************************)
LimbBits == 13

Base == 2 ^ LimbBits

RECURSIVE NatOf(_)
NatOf(n) ==
  IF n = 0 THEN <<>> ELSE <<n % Base>> \o NatOf(n \div Base)

Trim(x) ==
  IF \A i \in 1..Len(x) : x[i] = 0 THEN <<>>
  ELSE SubSeq(x, 1, CHOOSE i \in 1..Len(x) :
                      x[i] # 0 /\ \A j \in (i + 1)..Len(x) : x[j] = 0)

LimbAt(x, i) ==
  IF i >= 1 /\ i <= Len(x) THEN x[i] ELSE 0

RECURSIVE AddFrom(_, _, _, _, _)
AddFrom(x, y, i, n, c) ==
  IF i > n THEN (IF c = 0 THEN <<>> ELSE <<c>>)
  ELSE LET s == LimbAt(x, i) + LimbAt(y, i) + c
       IN  <<s % Base>> \o AddFrom(x, y, i + 1, n, s \div Base)

NatAdd(x, y) ==
  Trim(AddFrom(x, y, 1, IF Len(x) > Len(y) THEN Len(x) ELSE Len(y), 0))

RECURSIVE SubFrom(_, _, _, _, _)
SubFrom(x, y, i, n, brw) ==
  IF i > n THEN <<>>
  ELSE LET s == LimbAt(x, i) - LimbAt(y, i) - brw
       IN  <<(s + Base) % Base>> \o SubFrom(x, y, i + 1, n, IF s < 0 THEN 1 ELSE 0)

\* x - y for x >= y
NatSub(x, y) ==
  Trim(SubFrom(x, y, 1, Len(x), 0))

NatLess(x, y) ==
  \/ Len(x) < Len(y)
  \/ /\ Len(x) = Len(y)
     /\ \E i \in 1..Len(x) :
          /\ x[i] < y[i]
          /\ \A j \in (i + 1)..Len(x) : x[j] = y[j]

RECURSIVE Column(_, _, _, _)
Column(x, y, k, i) ==
  IF i > Len(x) THEN 0
  ELSE x[i] * LimbAt(y, k + 1 - i) + Column(x, y, k, i + 1)

RECURSIVE Carry(_, _, _, _, _)
Carry(x, y, k, n, c) ==
  IF k > n THEN NatOf(c)
  ELSE LET s == Column(x, y, k, 1) + c
       IN  <<s % Base>> \o Carry(x, y, k + 1, n, s \div Base)

\* schoolbook product of two significands (each of at most five limbs)
NatMul(x, y) ==
  IF x = <<>> \/ y = <<>> THEN <<>>
  ELSE Trim(Carry(x, y, 1, Len(x) + Len(y) - 1, 0))

\* the number of bits of x, and its bit i (bit 1 is the least significant)
BitLen(x) ==
  IF x = <<>> THEN 0
  ELSE LimbBits * (Len(x) - 1)
         + (CHOOSE k \in 1..LimbBits : 2 ^ (k - 1) <= x[Len(x)] /\ x[Len(x)] < 2 ^ k)

BitOf(x, i) ==
  (LimbAt(x, ((i - 1) \div LimbBits) + 1) \div (2 ^ ((i - 1) % LimbBits))) % 2

ShiftRight(x, k) ==
  LET q == k \div LimbBits
      r == k % LimbBits
  IN  Trim([i \in 1..(Len(x) - q) |->
              (LimbAt(x, i + q) \div (2 ^ r))
                + (LimbAt(x, i + q + 1) % (2 ^ r)) * (2 ^ (LimbBits - r))])

ShiftLeft(x, k) ==
  LET q == k \div LimbBits
      r == k % LimbBits
  IN  Trim([i \in 1..(Len(x) + q + 1) |->
              (LimbAt(x, i - q) % (2 ^ (LimbBits - r))) * (2 ^ r)
                + (LimbAt(x, i - q - 1) \div (2 ^ (LimbBits - r)))])

(***************************************************************************)
(* Python floats: IEEE-754 binary64 values (-1)^neg * m * 2^e with a       *)
(* significand of at most MantissaBits bits, kept with m odd (or zero).    *)
(* Every operation computes the exact result and rounds it to nearest,     *)
(* ties to even.  The values of this program stay far from the overflow    *)
(* and subnormal ranges, so the exponent is unbounded here.                *)
(***************************************************************************)
MantissaBits == 53

Zero == [neg |-> FALSE, m |-> <<>>, e |-> 0]

LowZeros(x) ==
  CHOOSE z \in 0..(BitLen(x) - 1) :
    BitOf(x, z + 1) = 1 /\ \A j \in 1..z : BitOf(x, j) = 0

Canon(neg, nat, e) ==
  LET t == Trim(nat)
  IN  IF t = <<>> THEN Zero
      ELSE LET z == LowZeros(t)
           IN  [neg |-> neg, m |-> ShiftRight(t, z), e |-> e + z]

\* round the exact value nat * 2^e (plus a nonzero tail below it when sticky)
Round(neg, nat, e, sticky) ==
  LET t == Trim(nat)
      n == BitLen(t)
  IN  IF n <= MantissaBits THEN Canon(neg, t, e)
      ELSE LET drop == n - MantissaBits
               kept == ShiftRight(t, drop)
               half == BitOf(t, drop) = 1
               tail == sticky \/ \E j \in 1..(drop - 1) : BitOf(t, j) = 1
               up   == half /\ (tail \/ BitOf(kept, 1) = 1)
           IN  Canon(neg, IF up THEN NatAdd(kept, <<1>>) ELSE kept, e + drop)

Abs(n) ==
  IF n < 0 THEN -n ELSE n

\* int -> float conversion of a mixed int/float operation
FromInt(n) ==
  Round(n < 0, NatOf(Abs(n)), 0, FALSE)

FNeg(a) ==
  IF a.m = <<>> THEN a ELSE [a EXCEPT !.neg = ~a.neg]

\* the exact sum of two floats, not yet rounded
ExactAdd(a, b) ==
  IF a.m = <<>> THEN [neg |-> b.neg, nat |-> b.m, e |-> b.e]
  ELSE IF b.m = <<>> THEN [neg |-> a.neg, nat |-> a.m, e |-> a.e]
  ELSE LET e0 == IF a.e < b.e THEN a.e ELSE b.e
           A  == ShiftLeft(a.m, a.e - e0)
           B  == ShiftLeft(b.m, b.e - e0)
       IN  IF a.neg = b.neg THEN [neg |-> a.neg, nat |-> NatAdd(A, B), e |-> e0]
           ELSE IF NatLess(A, B) THEN [neg |-> b.neg, nat |-> NatSub(B, A), e |-> e0]
           ELSE IF NatLess(B, A) THEN [neg |-> a.neg, nat |-> NatSub(A, B), e |-> e0]
           ELSE [neg |-> FALSE, nat |-> <<>>, e |-> 0]

FAdd(a, b) ==
  LET s == ExactAdd(a, b) IN Round(s.neg, s.nat, s.e, FALSE)

FSub(a, b) ==
  FAdd(a, FNeg(b))

FMul(a, b) ==
  IF a.m = <<>> \/ b.m = <<>> THEN Zero
  ELSE Round(a.neg # b.neg, NatMul(a.m, b.m), a.e + b.e, FALSE)

\* a <= b, compared exactly
FLe(a, b) ==
  LET s == ExactAdd(a, FNeg(b)) IN s.nat = <<>> \/ s.neg

FLt(a, b) ==
  ~FLe(b, a)

\* k limbs of the fraction r/d (r < d), most significant first computed
RECURSIVE FracLimbs(_, _, _)
FracLimbs(r, d, k) ==
  IF k = 0 THEN [nat |-> <<>>, rem |-> r]
  ELSE LET rest == FracLimbs((r * Base) % d, d, k - 1)
       IN  [nat |-> Append(rest.nat, (r * Base) \div d), rem |-> rest.rem]

\* Python's int / int: the correctly rounded quotient (d # 0, |d| < 2^18)
TrueDiv(n, d) ==
  IF n = 0 THEN Zero
  ELSE LET an == Abs(n)
           ad == Abs(d)
           k  == ((MantissaBits + 2 + BitLen(NatOf(ad))) \div LimbBits) + 1
           f  == FracLimbs(an % ad, ad, k)
       IN  Round((n < 0) # (d < 0), f.nat \o NatOf(an \div ad), -(LimbBits * k), f.rem # 0)

(***************************************************************************)
(* point_on_segment(p, a, b, threshold), src/main.py lines 142-172.        *)
(* max(0, min(1, t)) yields the int 0 or 1 when it clamps, and then the    *)
(* rest of the function is integer arithmetic; otherwise t is a float and  *)
(* every later operation is a rounded float operation.                     *)
(***************************************************************************)
point_on_segment(p, a, b, threshold) ==
  LET px == p[1]
      py == p[2]
      ax == a[1]
      ay == a[2]
      bx == b[1]
      by == b[2]
      seg_len_sq == (bx - ax) * (bx - ax) + (by - ay) * (by - ay)
  IN  IF seg_len_sq = 0
      THEN LET dx == px - ax
               dy == py - ay
           IN  (dx * dx + dy * dy) <= threshold * threshold
      ELSE LET t == TrueDiv((px - ax) * (bx - ax) + (py - ay) * (by - ay), seg_len_sq)
           IN  IF ~FLt(t, FromInt(1)) \/ ~FLt(Zero, t)
               THEN \* min(1, t) gave the int 1, or max(0, .) gave the int 0
                    LET ti == IF FLt(t, FromInt(1)) THEN 0 ELSE 1
                        closest_x == ax + ti * (bx - ax)
                        closest_y == ay + ti * (by - ay)
                        dx == px - closest_x
                        dy == py - closest_y
                    IN  (dx * dx + dy * dy) <= threshold * threshold
               ELSE LET closest_x == FAdd(FromInt(ax), FMul(t, FromInt(bx - ax)))
                        closest_y == FAdd(FromInt(ay), FMul(t, FromInt(by - ay)))
                        dx == FSub(FromInt(px), closest_x)
                        dy == FSub(FromInt(py), closest_y)
                    IN  FLe(FAdd(FMul(dx, dx), FMul(dy, dy)),
                            FromInt(threshold * threshold))

(***************************************************************************)
(* Window, electric model and component geometry, src/main.py lines 20-92. *)
(***************************************************************************)
WIDTH == 900

HEIGHT == 500

BATTERY_VOLTAGE == 9

BULB_RESISTANCE == 10

\* the default of point_on_segment's threshold parameter
DefaultThreshold == 8

Rect(x, y, w, h) ==
  [x |-> x, y |-> y, w |-> w, h |-> h]

left(r) ==
  r.x

right(r) ==
  r.x + r.w

centery(r) ==
  r.y + (r.h \div 2)

battery_rect == Rect(60, 180, 120, 140)

bulb_rect == Rect(300, 150, 120, 120)

switch_rect == Rect(540, 160, 140, 100)

return_rect == Rect(760, 180, 100, 140)

battery_to_bulb_p1 == <<right(battery_rect), centery(battery_rect)>>

battery_to_bulb_p2 == <<left(bulb_rect), centery(bulb_rect)>>

bulb_to_switch_p1 == <<right(bulb_rect), centery(bulb_rect)>>

bulb_to_switch_p2 == <<left(switch_rect), centery(switch_rect)>>

switch_to_return_p1 == <<right(switch_rect), centery(switch_rect)>>

switch_to_return_p2 == <<left(return_rect), centery(return_rect)>>

\* pygame.Rect.collidepoint: the left and top edges are inside, the right
\* and bottom edges are not
collidepoint(r, pos) ==
  /\ r.x <= pos[1]
  /\ pos[1] < r.x + r.w
  /\ r.y <= pos[2]
  /\ pos[2] < r.y + r.h

(***************************************************************************)
(* Bounds of the model.                                                    *)
(***************************************************************************)
\* clicks arrive only while score is below this bound
MaxScore == 2

\* the most events one pygame.event.get() returns
MaxBatch == 2

\* coordinates and thresholds handed to point_on_segment on its own
MaxCoord == 4

MaxThreshold == 2

(***************************************************************************)
(* Inputs.                                                                 *)
(***************************************************************************)
Event(type, key) ==
  [type |-> type, key |-> key]

QUIT == Event("QUIT", "none")

KEYDOWN_r == Event("KEYDOWN", "K_r")

KEYDOWN_other == Event("KEYDOWN", "K_SPACE")

MOUSEBUTTONDOWN == Event("MOUSEBUTTONDOWN", "none")

MOUSEMOTION == Event("MOUSEMOTION", "none")

\* the loop variable before the for loop has bound it
NoEvent == Event("none", "none")

Events == {QUIT, KEYDOWN_r, KEYDOWN_other, MOUSEBUTTONDOWN, MOUSEMOTION}

\* the positions pygame.mouse.get_pos() returns in this model: on each wire,
\* at and around the 8-pixel threshold, in the switch rectangle and on its
\* edges, where a wire's end cap overlaps the switch rectangle, and on
\* nothing
ClickPositions ==
  { <<240, 230>>, <<480, 218>>, <<480, 219>>, <<720, 230>>,
    <<610, 210>>, <<540, 160>>, <<680, 160>>,
    <<540, 210>>, <<545, 210>>, <<675, 212>>, <<100, 100>>,
    <<WIDTH - 1, HEIGHT - 1>> }

Grid == (0..MaxCoord) \X (0..MaxCoord)

NoCall == [p |-> <<0, 0>>, a |-> <<0, 0>>, b |-> <<0, 0>>, threshold |-> 0]

(***************************************************************************)
(* State: the module-level variables of src/main.py (lines 103-114, 349,   *)
(* 357, 369, 377, 379) and the position of the main loop.  Of the list that*)
(* pygame.event.get() returned, pending is the number of events the for    *)
(* loop of line 357 has still to visit; what each event is shows when the  *)
(* loop reaches it.  pos_call and pos_result hold one call of              *)
(* point_on_segment on its own.                                            *)
(***************************************************************************)
VARIABLES wire_battery_to_bulb_on, wire_bulb_to_switch_on,
          wire_switch_to_return_on, switch_on, score, hint_text,
          running, pending, event, mouse_pos, I, bulb_lit, pc,
          pos_call, pos_result

flags == <<wire_battery_to_bulb_on, wire_bulb_to_switch_on,
           wire_switch_to_return_on, switch_on>>

game == <<wire_battery_to_bulb_on, wire_bulb_to_switch_on,
          wire_switch_to_return_on, switch_on, score, hint_text>>

vars == <<wire_battery_to_bulb_on, wire_bulb_to_switch_on,
          wire_switch_to_return_on, switch_on, score, hint_text,
          running, pending, event, mouse_pos, I, bulb_lit, pc,
          pos_call, pos_result>>

HintStart == "Click wires to toggle ON/OFF. Click the switch to toggle it."

HintWire1 == "Toggled wire: Battery -> Bulb"

HintWire2 == "Toggled wire: Bulb -> Switch"

HintWire3 == "Toggled wire: Switch -> Return"

HintClosed == "Great! Circuit closed. Bulb is ON. (Press R to reset)"

HintSwitch == "Switch toggled. Complete all wires to light the bulb."

HintReset == "Reset done. Toggle wires and the switch to complete the loop."

\* a plausible slip: the switch left out of the conjunction
circuit_closed_NoSwitch ==
  wire_battery_to_bulb_on /\ wire_bulb_to_switch_on /\ wire_switch_to_return_on

circuit_closed ==
  wire_battery_to_bulb_on /\ wire_bulb_to_switch_on
    /\ wire_switch_to_return_on /\ switch_on

\* BATTERY_VOLTAGE / BULB_RESISTANCE of line 261, a float
V_over_R == TrueDiv(BATTERY_VOLTAGE, BULB_RESISTANCE)

\* the int 0 and the float 0.0 are the one value Zero here
compute_current ==
  IF circuit_closed THEN V_over_R ELSE Zero

(***************************************************************************)
(* handle_mouse_click(pos), src/main.py lines 287-324.  The three hit      *)
(* tests depend on the position alone: each is computed once for every     *)
(* position of ClickPositions.                                             *)
(***************************************************************************)
near_battery_to_bulb ==
  {pos \in ClickPositions :
     point_on_segment(pos, battery_to_bulb_p1, battery_to_bulb_p2, DefaultThreshold)}

near_bulb_to_switch ==
  {pos \in ClickPositions :
     point_on_segment(pos, bulb_to_switch_p1, bulb_to_switch_p2, DefaultThreshold)}

near_switch_to_return ==
  {pos \in ClickPositions :
     point_on_segment(pos, switch_to_return_p1, switch_to_return_p2, DefaultThreshold)}

toggle_battery_to_bulb ==
  /\ wire_battery_to_bulb_on' = ~wire_battery_to_bulb_on
  /\ hint_text' = HintWire1
  /\ UNCHANGED <<wire_bulb_to_switch_on, wire_switch_to_return_on, switch_on, score>>

\* a plausible slip: a wire branch that scores when it closes the loop
toggle_bulb_to_switch_Scores ==
  /\ wire_bulb_to_switch_on' = ~wire_bulb_to_switch_on
  /\ UNCHANGED <<wire_battery_to_bulb_on, wire_switch_to_return_on, switch_on>>
  /\ hint_text' = HintWire2
  /\ score' = IF circuit_closed' THEN score + 1 ELSE score

toggle_bulb_to_switch ==
  /\ wire_bulb_to_switch_on' = ~wire_bulb_to_switch_on
  /\ hint_text' = HintWire2
  /\ UNCHANGED <<wire_battery_to_bulb_on, wire_switch_to_return_on, switch_on, score>>

toggle_switch_to_return ==
  /\ wire_switch_to_return_on' = ~wire_switch_to_return_on
  /\ hint_text' = HintWire3
  /\ UNCHANGED <<wire_battery_to_bulb_on, wire_bulb_to_switch_on, switch_on, score>>

\* a plausible slip: circuit_closed() read before the flag is flipped
toggle_switch_CheckBeforeToggle ==
  /\ switch_on' = ~switch_on
  /\ UNCHANGED <<wire_battery_to_bulb_on, wire_bulb_to_switch_on, wire_switch_to_return_on>>
  /\ IF circuit_closed
     THEN score' = score + 1 /\ hint_text' = HintClosed
     ELSE score' = score /\ hint_text' = HintSwitch

\* a plausible slip: the score counted on every toggle of the switch
toggle_switch_AlwaysScores ==
  /\ switch_on' = ~switch_on
  /\ UNCHANGED <<wire_battery_to_bulb_on, wire_bulb_to_switch_on, wire_switch_to_return_on>>
  /\ score' = score + 1
  /\ hint_text' = IF circuit_closed' THEN HintClosed ELSE HintSwitch

toggle_switch ==
  /\ switch_on' = ~switch_on
  /\ UNCHANGED <<wire_battery_to_bulb_on, wire_bulb_to_switch_on, wire_switch_to_return_on>>
  /\ IF circuit_closed'
     THEN score' = score + 1 /\ hint_text' = HintClosed
     ELSE score' = score /\ hint_text' = HintSwitch

\* a plausible slip: the return of line 307 missing, so that a click on the
\* second wire goes on to the tests that follow it
handle_mouse_click_NoReturn(pos) ==
  IF pos \in near_battery_to_bulb
  THEN toggle_battery_to_bulb
  ELSE IF pos \in near_bulb_to_switch /\ pos \notin near_switch_to_return
          /\ collidepoint(switch_rect, pos)
  THEN /\ wire_bulb_to_switch_on' = ~wire_bulb_to_switch_on
       /\ switch_on' = ~switch_on
       /\ UNCHANGED <<wire_battery_to_bulb_on, wire_switch_to_return_on>>
       /\ IF circuit_closed'
          THEN score' = score + 1 /\ hint_text' = HintClosed
          ELSE score' = score /\ hint_text' = HintSwitch
  ELSE IF pos \in near_bulb_to_switch
  THEN toggle_bulb_to_switch
  ELSE IF pos \in near_switch_to_return
  THEN toggle_switch_to_return
  ELSE IF collidepoint(switch_rect, pos)
  THEN toggle_switch
  ELSE UNCHANGED game

\* a plausible slip: the switch rectangle tested before the wires
handle_mouse_click_SwitchFirst(pos) ==
  IF collidepoint(switch_rect, pos)
  THEN toggle_switch
  ELSE IF pos \in near_battery_to_bulb
  THEN toggle_battery_to_bulb
  ELSE IF pos \in near_bulb_to_switch
  THEN toggle_bulb_to_switch
  ELSE IF pos \in near_switch_to_return
  THEN toggle_switch_to_return
  ELSE UNCHANGED game

handle_mouse_click(pos) ==
  IF pos \in near_battery_to_bulb
  THEN toggle_battery_to_bulb
  ELSE IF pos \in near_bulb_to_switch
  THEN toggle_bulb_to_switch
  ELSE IF pos \in near_switch_to_return
  THEN toggle_switch_to_return
  ELSE IF collidepoint(switch_rect, pos)
  THEN toggle_switch
  ELSE UNCHANGED game

(***************************************************************************)
(* reset_game(), src/main.py lines 326-342.                                *)
(***************************************************************************)
\* a plausible slip: the switch forgotten by the reset
reset_game_KeepsSwitch ==
  /\ wire_battery_to_bulb_on' = FALSE
  /\ wire_bulb_to_switch_on' = FALSE
  /\ wire_switch_to_return_on' = FALSE
  /\ hint_text' = HintReset
  /\ UNCHANGED <<switch_on, score>>

\* a plausible slip: a reset that also clears the score
reset_game_ZeroesScore ==
  /\ wire_battery_to_bulb_on' = FALSE
  /\ wire_bulb_to_switch_on' = FALSE
  /\ wire_switch_to_return_on' = FALSE
  /\ switch_on' = FALSE
  /\ hint_text' = HintReset
  /\ score' = 0

reset_game ==
  /\ wire_battery_to_bulb_on' = FALSE
  /\ wire_bulb_to_switch_on' = FALSE
  /\ wire_switch_to_return_on' = FALSE
  /\ switch_on' = FALSE
  /\ hint_text' = HintReset
  /\ UNCHANGED score

(***************************************************************************)
(* The main loop, src/main.py lines 349-422.                               *)
(***************************************************************************)
harness == <<pos_call, pos_result>>

\* a plausible slip: a loop condition that does not read running
LoopCheck_IgnoresRunning ==
  /\ pc = "while"
  /\ pc' = "tick"
  /\ UNCHANGED <<game, running, pending, event, mouse_pos, I, bulb_lit, harness>>

\* while running:
LoopCheck ==
  /\ pc = "while"
  /\ pc' = IF running THEN "tick" ELSE "quit"
  /\ UNCHANGED <<game, running, pending, event, mouse_pos, I, bulb_lit, harness>>

\* clock.tick(FPS); pygame.event.get()
PollEvents ==
  /\ pc = "tick"
  /\ pending' \in 0..MaxBatch
  /\ pc' = "for"
  /\ UNCHANGED <<game, running, event, mouse_pos, I, bulb_lit, harness>>

\* one iteration of the for loop, on the event it reaches
HandleQuit ==
  /\ pc = "for"
  /\ pending > 0
  /\ \E ev \in Events :
       /\ ev.type = "QUIT"
       /\ event' = ev
       /\ running' = FALSE
  /\ pending' = pending - 1
  /\ UNCHANGED <<game, mouse_pos, I, bulb_lit, pc, harness>>

HandleKeydown ==
  /\ pc = "for"
  /\ pending > 0
  /\ \E ev \in Events :
       /\ ev.type = "KEYDOWN"
       /\ event' = ev
       /\ IF ev.key = "K_r" THEN reset_game ELSE UNCHANGED game
  /\ pending' = pending - 1
  /\ UNCHANGED <<running, mouse_pos, I, bulb_lit, pc, harness>>

\* a click arrives only while score is below MaxScore
HandleMouseButtonDown ==
  /\ pc = "for"
  /\ pending > 0
  /\ score < MaxScore
  /\ \E ev \in Events :
       /\ ev.type = "MOUSEBUTTONDOWN"
       /\ event' = ev
       /\ \E pos \in ClickPositions :
            /\ mouse_pos' = pos
            /\ handle_mouse_click(pos)
  /\ pending' = pending - 1
  /\ UNCHANGED <<running, I, bulb_lit, pc, harness>>

\* an event of a type none of the three branches names
HandleOtherEvent ==
  /\ pc = "for"
  /\ pending > 0
  /\ \E ev \in Events :
       /\ ev.type \notin {"QUIT", "KEYDOWN", "MOUSEBUTTONDOWN"}
       /\ event' = ev
  /\ pending' = pending - 1
  /\ UNCHANGED <<game, running, mouse_pos, I, bulb_lit, pc, harness>>

\* the for loop is exhausted: I = compute_current(); bulb_lit = I > 0
Update ==
  /\ pc = "for"
  /\ pending = 0
  /\ I' = compute_current
  /\ bulb_lit' = FLt(Zero, compute_current)
  /\ pc' = "draw"
  /\ UNCHANGED <<game, running, pending, event, mouse_pos, harness>>

\* screen.fill ... pygame.display.flip(): drawing reads the state only
Draw ==
  /\ pc = "draw"
  /\ pc' = "while"
  /\ UNCHANGED <<game, running, pending, event, mouse_pos, I, bulb_lit, harness>>

\* pygame.quit(); sys.exit()
Shutdown ==
  /\ pc = "quit"
  /\ pc' = "exited"
  /\ UNCHANGED <<game, running, pending, event, mouse_pos, I, bulb_lit, harness>>

Init ==
  /\ wire_battery_to_bulb_on = FALSE
  /\ wire_bulb_to_switch_on = FALSE
  /\ wire_switch_to_return_on = FALSE
  /\ switch_on = FALSE
  /\ score = 0
  /\ hint_text = HintStart
  /\ running = TRUE
  /\ pending = 0
  /\ event = NoEvent
  /\ mouse_pos = <<>>
  /\ I = Zero
  /\ bulb_lit = FALSE
  /\ pc = "while"
  /\ pos_call = NoCall
  /\ pos_result = <<>>

Next ==
  \/ LoopCheck
  \/ PollEvents
  \/ HandleQuit
  \/ HandleKeydown
  \/ HandleMouseButtonDown
  \/ HandleOtherEvent
  \/ Update
  \/ Draw
  \/ Shutdown

Spec == Init /\ [][Next]_vars

\* the interpreter runs the loop on: every enabled step is eventually taken
FairSpec == Spec /\ WF_vars(Next)

(***************************************************************************)
(* point_on_segment on its own: one call on arguments from the grid.       *)
(***************************************************************************)
loop == <<running, pending, event, mouse_pos, I, bulb_lit, pc>>

InitSegment ==
  /\ wire_battery_to_bulb_on = FALSE
  /\ wire_bulb_to_switch_on = FALSE
  /\ wire_switch_to_return_on = FALSE
  /\ switch_on = FALSE
  /\ score = 0
  /\ hint_text = HintStart
  /\ running = TRUE
  /\ pending = 0
  /\ event = NoEvent
  /\ mouse_pos = <<>>
  /\ I = Zero
  /\ bulb_lit = FALSE
  /\ pc = "while"
  /\ pos_call \in [p : Grid, a : Grid, b : Grid, threshold : 0..MaxThreshold]
  /\ pos_result = <<>>

CallPointOnSegment ==
  /\ pos_result = <<>>
  /\ pos_result' = <<point_on_segment(pos_call.p, pos_call.a, pos_call.b,
                                        pos_call.threshold)>>
  /\ UNCHANGED <<game, loop, pos_call>>

NextSegment == CallPointOnSegment

SpecSegment == InitSegment /\ [][NextSegment]_vars
(***************************************************************************)
(* Vocabulary of the properties.                                           *)
(***************************************************************************)
\* the step is one iteration of the for loop
EventStep ==
  pc = "for" /\ pending' = pending - 1

\* ... on a MOUSEBUTTONDOWN event, clicked at mouse_pos'
ClickStep ==
  EventStep /\ event'.type = "MOUSEBUTTONDOWN"

\* ... on the KEYDOWN event of key r
ResetStep ==
  EventStep /\ event'.type = "KEYDOWN" /\ event'.key = "K_r"

\* the targets a position matches, in the order the code tests them:
\* 1, 2, 3 are the wires and 4 is the switch rectangle
Matches(pos) ==
  {i \in 1..4 :
     \/ i = 1 /\ pos \in near_battery_to_bulb
     \/ i = 2 /\ pos \in near_bulb_to_switch
     \/ i = 3 /\ pos \in near_switch_to_return
     \/ i = 4 /\ collidepoint(switch_rect, pos)}

\* the flags a step flips
Flipped ==
  {i \in 1..4 : flags'[i] # flags[i]}

AllOpen ==
  \A i \in 1..4 : ~flags[i]

\* v is the binary64 value nearest to n/d (n, d > 0): it lies within half a
\* unit in the last place of n/d
IsNearestDouble(v, n, d) ==
  /\ ~v.neg
  /\ v.m # <<>>
  /\ LET s    == MantissaBits + 1 - BitLen(v.m)
         lhs  == NatMul(NatOf(d), ShiftLeft(v.m, s))
         rhs  == ShiftLeft(NatOf(n), s - v.e)
         diff == IF NatLess(lhs, rhs) THEN NatSub(rhs, lhs) ELSE NatSub(lhs, rhs)
     IN  ~NatLess(NatOf(d), diff)

\* the current of the closed circuit is the float 0.9
ClosedCurrentIsPointNine ==
  IsNearestDouble(V_over_R, 9, 10)

\* the exact squared distance from p to the segment a-b, as a fraction
SegmentDistSq(p, a, b) ==
  LET wx  == p[1] - a[1]
      wy  == p[2] - a[2]
      vx  == b[1] - a[1]
      vy  == b[2] - a[2]
      len == vx * vx + vy * vy
      dot == wx * vx + wy * vy
  IN  IF len = 0 \/ dot <= 0 THEN [num |-> wx * wx + wy * wy, den |-> 1]
      ELSE IF dot >= len
      THEN [num |-> (p[1] - b[1]) * (p[1] - b[1]) + (p[2] - b[2]) * (p[2] - b[2]),
            den |-> 1]
      ELSE [num |-> len * (wx * wx + wy * wy) - dot * dot, den |-> len]

\* the squared distance from pos to the pixels of rectangle r
RectDistSq(r, pos) ==
  LET dx == IF pos[1] < r.x THEN r.x - pos[1]
            ELSE IF pos[1] > r.x + r.w - 1 THEN pos[1] - (r.x + r.w - 1) ELSE 0
      dy == IF pos[2] < r.y THEN r.y - pos[2]
            ELSE IF pos[2] > r.y + r.h - 1 THEN pos[2] - (r.y + r.h - 1) ELSE 0
  IN  [num |-> dx * dx + dy * dy, den |-> 1]

TargetDistSq(i, pos) ==
  IF i = 1 THEN SegmentDistSq(pos, battery_to_bulb_p1, battery_to_bulb_p2)
  ELSE IF i = 2 THEN SegmentDistSq(pos, bulb_to_switch_p1, bulb_to_switch_p2)
  ELSE IF i = 3 THEN SegmentDistSq(pos, switch_to_return_p1, switch_to_return_p2)
  ELSE RectDistSq(switch_rect, pos)

FractionLe(x, y) ==
  x.num * y.den <= y.num * x.den

\* some point a + (k/n)(b - a) of the segment, n = |b - a|^2, lies within
\* threshold of p; the nearest point of the segment is one of these
WithinThreshold(p, a, b, threshold) ==
  LET vx  == b[1] - a[1]
      vy  == b[2] - a[2]
      len == vx * vx + vy * vy
      n   == IF len = 0 THEN 1 ELSE len
  IN  \E k \in 0..n :
        LET dx == n * (p[1] - a[1]) - k * vx
            dy == n * (p[2] - a[2]) - k * vy
        IN  dx * dx + dy * dy <= threshold * threshold * n * n

(***************************************************************************)
(* C1: in every reachable state circuit_closed() is true iff the three     *)
(* wire flags and the switch flag are all true, and compute_current()      *)
(* returns 9/10 (the float 0.9) exactly when the circuit is closed and 0   *)
(* otherwise.                                                              *)
(***************************************************************************)
C1_ClosedIffAllFour ==
  /\ circuit_closed <=> (\A i \in 1..4 : flags[i])
  /\ circuit_closed => (compute_current = V_over_R /\ ClosedCurrentIsPointNine)
  /\ ~circuit_closed => compute_current = Zero

\* the loop is closed and the update step has computed the current from it
C1_Witness ==
  /\ pc = "draw"
  /\ \A i \in 1..4 : flags[i]
  /\ I = V_over_R
  /\ ClosedCurrentIsPointNine
  /\ bulb_lit

(***************************************************************************)
(* C2: score is edge-triggered.  A step that toggles the switch adds       *)
(* exactly 1 to score if the circuit was not closed before it and is       *)
(* closed after it, and nothing otherwise; no step that starts from a      *)
(* closed circuit changes score; no step adds more than 1.                 *)
(***************************************************************************)
C2_ScoreEdgeTriggered ==
  [][ /\ switch_on' # switch_on =>
           score' = score + (IF ~circuit_closed /\ circuit_closed' THEN 1 ELSE 0)
      /\ circuit_closed => score' = score
      /\ score' \in {score, score + 1} ]_vars

\* a second open->closed transition of the switch has been scored
C2_Witness ==
  /\ event.type = "MOUSEBUTTONDOWN"
  /\ Matches(mouse_pos) = {4}
  /\ hint_text = HintClosed
  /\ circuit_closed
  /\ score = 2

(***************************************************************************)
(* C3: click dispatch is first-match in the order wire battery->bulb,      *)
(* wire bulb->switch, wire switch->return, switch rectangle: a click       *)
(* flips exactly the flag of the first target its position matches and     *)
(* no other flag, and a click that matches no target changes neither a     *)
(* flag nor the score.                                                     *)
(***************************************************************************)
C3_FirstMatchDispatch ==
  [][ ClickStep =>
        LET m == Matches(mouse_pos')
        IN  IF m = {}
            THEN Flipped = {} /\ score' = score
            ELSE Flipped = {CHOOSE i \in m : \A j \in m : i <= j} ]_vars

\* a click that matches the third wire and the switch has flipped the wire only
C3_Witness ==
  /\ event.type = "MOUSEBUTTONDOWN"
  /\ Matches(mouse_pos) = {3, 4}
  /\ hint_text = HintWire3
  /\ wire_switch_to_return_on
  /\ ~switch_on

(***************************************************************************)
(* C4 as claimed: a click that hits more than one target toggles the       *)
(* target nearest to the click position.                                   *)
(***************************************************************************)
C4_NearestToggled ==
  [][ (ClickStep /\ Cardinality(Matches(mouse_pos')) > 1) =>
        \A i \in Flipped : \A j \in Matches(mouse_pos') :
          FractionLe(TargetDistSq(i, mouse_pos'), TargetDistSq(j, mouse_pos')) ]_vars

(***************************************************************************)
(* C4 as amended: a click that is within the threshold of a wire and also  *)
(* inside the switch rectangle toggles that wire and leaves the switch     *)
(* and the score as they were, also when the click is nearer to the        *)
(* switch than to the wire.                                                *)
(***************************************************************************)
C4_WireBeforeSwitch ==
  [][ (ClickStep /\ Cardinality(Matches(mouse_pos')) > 1) =>
        /\ Flipped = Matches(mouse_pos') \ {4}
        /\ switch_on' = switch_on
        /\ score' = score ]_vars

\* a click inside the switch rectangle, 5 pixels off the end of the second
\* wire, has toggled the wire
C4_Witness ==
  /\ event.type = "MOUSEBUTTONDOWN"
  /\ Matches(mouse_pos) = {2, 4}
  /\ ~FractionLe(TargetDistSq(2, mouse_pos), TargetDistSq(4, mouse_pos))
  /\ hint_text = HintWire2

(***************************************************************************)
(* C5: reset (key R) yields the all-open state: after it the three wire    *)
(* flags and the switch flag are false, circuit_closed() is false and the  *)
(* current is 0, whatever the flags were before.                           *)
(***************************************************************************)
C5_ResetAllOpen ==
  [][ ResetStep => (AllOpen /\ ~circuit_closed /\ compute_current = Zero)' ]_vars

\* a reset has opened a loop that was closed at the last update
C5_Witness ==
  /\ pc = "for"
  /\ event = KEYDOWN_r
  /\ hint_text = HintReset
  /\ bulb_lit
  /\ AllOpen

(***************************************************************************)
(* C6 as claimed: reset restores every component of the state to its       *)
(* startup value: all four flags false and score 0.                        *)
(***************************************************************************)
C6_ResetRestoresScore ==
  [][ ResetStep => (AllOpen' /\ score' = 0) ]_vars

(***************************************************************************)
(* C6 as amended: reset restores the four flags to their startup value     *)
(* (false) and leaves score at the value it had before the reset.          *)
(***************************************************************************)
C6_ResetKeepsScore ==
  [][ ResetStep => (AllOpen' /\ score' = score) ]_vars

\* a reset has been handled with points on the score
C6_Witness ==
  /\ event = KEYDOWN_r
  /\ hint_text = HintReset
  /\ AllOpen
  /\ score > 0

(***************************************************************************)
(* C7, scenario A: with the three wires toggled on from the startup state  *)
(* (switch off, score 0), a click on the switch gives circuit_closed,      *)
(* current 0.9 and score 1; the next click on the switch gives not         *)
(* circuit_closed, current 0 and score still 1.                            *)
(***************************************************************************)
C7_ScenarioA ==
  [][ (ClickStep /\ Matches(mouse_pos') = {4}
         /\ wire_battery_to_bulb_on /\ wire_bulb_to_switch_on
         /\ wire_switch_to_return_on) =>
        /\ (~switch_on /\ score = 0) =>
             /\ (circuit_closed /\ compute_current = V_over_R /\ score = 1)'
             /\ ClosedCurrentIsPointNine
        /\ (switch_on /\ score = 1) =>
             (~circuit_closed /\ compute_current = Zero /\ score = 1)' ]_vars

\* the scenario's last state: the switch clicked open again, score still 1
C7_Witness ==
  /\ event.type = "MOUSEBUTTONDOWN"
  /\ Matches(mouse_pos) = {4}
  /\ wire_battery_to_bulb_on /\ wire_bulb_to_switch_on /\ wire_switch_to_return_on
  /\ ~switch_on
  /\ hint_text = HintSwitch
  /\ score = 1

(***************************************************************************)
(* C8 as claimed: point_on_segment(p, a, b, threshold) returns true iff    *)
(* the distance from p to the nearest point of the segment a-b is at most  *)
(* threshold.                                                              *)
(***************************************************************************)
C8_ExactDistance ==
  pos_result # <<>> =>
    (pos_result[1] <=>
       WithinThreshold(pos_call.p, pos_call.a, pos_call.b, pos_call.threshold))

(***************************************************************************)
(* C9: the loop ends only on a quit signal and within the tick that        *)
(* polled it: running is cleared only by the handling of a QUIT event;     *)
(* once it is cleared it stays cleared, the rest of the tick runs (the     *)
(* remaining events, update, draw), no further tick starts, and the        *)
(* program reaches shutdown; shutdown is entered only with running         *)
(* cleared.                                                                *)
(***************************************************************************)
Rank(l) ==
  IF l \in {"tick", "for"} THEN 0
  ELSE IF l = "draw" THEN 1
  ELSE IF l = "while" THEN 2
  ELSE IF l = "quit" THEN 3
  ELSE 4

C9_QuitEndsLoop ==
  /\ [][ /\ (running /\ ~running') => (EventStep /\ event'.type = "QUIT")
         /\ ~running => (~running' /\ pc' # "tick" /\ Rank(pc') >= Rank(pc))
         /\ pc' \in {"quit", "exited"} => ~running' ]_vars
  /\ (~running ~> pc = "exited")

\* QUIT was followed by another event in its tick, and the program has exited
C9_Witness ==
  /\ pc = "exited"
  /\ ~running
  /\ event.type # "QUIT"

====
